---------------------------- MODULE Spec2Model ----------------------------
(***************************************************************************)
(* A model of MarkovModel (src/markov.py): the in-memory store of states,  *)
(* rewards, actions and weighted transitions, its validity check, weight   *)
(* normalisation, the policy reduction of an MDP to an MC, the bounded     *)
(* reachability and expected-reward iterations, and the random walk.       *)
(*                                                                         *)
(* Numbers.  Weights are Python ints before normalisation and Python       *)
(* floats after it.  Both are modelled as exact rationals <<n, d>> in      *)
(* lowest terms with d > 0; the rounding of binary floating point is       *)
(* outside the model, so every equality between probabilities below is an  *)
(* equality of exact quotients.                                            *)
(*                                                                         *)
(* Objects.  `states` is a Python list and `rewards` a Python dict, both   *)
(* shared by reference; the model keeps them in two small heaps (lists,    *)
(* dicts) and a MarkovModel object holds references into them, so that a   *)
(* copy and an alias are different things.                                 *)
(***************************************************************************)
EXTENDS Integers, Sequences, FiniteSets, TLC

VARIABLES
    lists,      \* heap of Python list objects: reference -> sequence of state names
    dicts,      \* heap of Python dict objects: reference -> set of <<state, reward>>
    self,       \* the MarkovModel under construction / analysis
    mc,         \* the MarkovModel last returned by markov_chain_from_policy, or NoModel
    pc,         \* "idle", or the loop of the call in progress
    frame,      \* the local variables of the call in progress
    ret         \* what the last call returned or raised

vars == <<lists, dicts, self, mc, pc, frame, ret>>

----------------------------------------------------------------------------
(* Bounds of the model.                                                    *)

MaxTrans == 2        \* transitions a model is built with
MaxWeight == 2       \* largest transition weight
MaxSteps == 3        \* largest `steps` argument of an analysis call or walk

----------------------------------------------------------------------------
(* Exact rationals.                                                        *)

Abs(x) == IF x < 0 THEN -x ELSE x

RECURSIVE GCD(_, _)
GCD(a, b) == IF b = 0 THEN a ELSE GCD(b, a % b)

Rat(n, d) ==
    LET g == GCD(Abs(n), Abs(d))
        s == IF d < 0 THEN -1 ELSE 1
    IN  << (s * n) \div g, (s * d) \div g >>

FromInt(i) == << i, 1 >>
Zero == FromInt(0)
One == FromInt(1)

RAdd(x, y) == Rat(x[1] * y[2] + y[1] * x[2], x[2] * y[2])
RMul(x, y) == Rat(x[1] * y[1], x[2] * y[2])
RDiv(x, y) == Rat(x[1] * y[2], x[2] * y[1])
RLt(x, y) == x[1] * y[2] < y[1] * x[2]
RLe(x, y) == x[1] * y[2] <= y[1] * x[2]

----------------------------------------------------------------------------
(* Sequences and dicts.                                                    *)

Range(s) == { s[i] : i \in DOMAIN s }

\* dict.get(key, default) on a dict kept as a set of <<key, value>> pairs
DictGet(d, k, default) ==
    IF \E p \in d : p[1] = k THEN (CHOOSE p \in d : p[1] = k)[2] ELSE default

\* d[key] on a dict that holds the key
DictItem(d, k) == (CHOOSE p \in d : p[1] = k)[2]

\* d[key] = value
DictSet(d, k, v) == { p \in d : p[1] # k } \cup { << k, v >> }

DictKeys(d) == { p[1] : p \in d }

----------------------------------------------------------------------------
(* Objects.                                                                *)

no_action_symbol == "*"

SelfRef == 1         \* the list / dict objects created by MarkovModel() for self
McRef == 2           \* the list / dict objects created for the reduced chain

NoModel == [ exists |-> FALSE, states |-> 0, rewards |-> 0,
             actions |-> << >>, transitions |-> << >>, normalized |-> FALSE ]

\* MarkovModel.__init__ : the fields of a fresh object whose states list and
\* rewards dict are the heap objects `ref`
NewModel(ref) ==
    [ exists |-> TRUE, states |-> ref, rewards |-> ref,
      actions |-> << no_action_symbol >>, transitions |-> << >>,
      normalized |-> FALSE ]

\* What the methods read of an object: its fields with the list and the dict
\* dereferenced.
View(m) ==
    [ states |-> lists[m.states], rewards |-> dicts[m.rewards],
      actions |-> m.actions, transitions |-> m.transitions,
      normalized |-> m.normalized ]

Trans(f, t, a, w) == [ from |-> f, to |-> t, action |-> a, weight |-> w ]

NoFrame == [ op |-> "none" ]
NoRet == [ op |-> "none" ]

----------------------------------------------------------------------------
(* The model store: validity, normalisation, kind.                         *)

\* MarkovModel.rewardless (a property): raises when rewards are mixed
rewardless(v) ==
    LET all_reward == \A s \in Range(v.states) : DictGet(v.rewards, s, -1) # -1
        no_reward == \A s \in Range(v.states) : DictGet(v.rewards, s, -1) = -1
    IN  [ raised |-> ~(no_reward \/ all_reward), value |-> no_reward ]

\* the list comprehension at the head of assert_valid: the sources of the
\* no-action transitions, over the whole transition list
no_action_transitions(v) ==
    { v.transitions[i].from :
        i \in { j \in DOMAIN v.transitions :
                  v.transitions[j].action = no_action_symbol } }

\* A variant of CheckTransitions that knows only the no-action transitions
\* met before transition i (a list filled while looping).
RECURSIVE CheckTransitionsSeenSoFar(_, _)
CheckTransitionsSeenSoFar(v, i) ==
    IF i > Len(v.transitions) THEN "ok"
    ELSE LET t == v.transitions[i]
             seen == { v.transitions[j].from :
                         j \in { k \in 1..(i - 1) :
                                   v.transitions[k].action = no_action_symbol } }
         IN
         IF t.from \notin Range(v.states) THEN "State not defined."
         ELSE IF t.to \notin Range(v.states) THEN "State not defined."
         ELSE IF t.action \notin Range(v.actions) THEN "Action not defined."
         ELSE IF ~RLe(Zero, t.weight) THEN "Transition weight must be non-negative."
         ELSE IF t.action # no_action_symbol /\ t.from \in seen
              THEN "Cannot mix actions with no-action transitions."
         ELSE CheckTransitionsSeenSoFar(v, i + 1)

\* the assertions of assert_valid's loop body on transition i and after it:
\* the message of the first one that fails, "ok" when none does
RECURSIVE CheckTransitions(_, _)
CheckTransitions(v, i) ==
    IF i > Len(v.transitions) THEN "ok"
    ELSE LET t == v.transitions[i] IN
         IF t.from \notin Range(v.states) THEN "State not defined."
         ELSE IF t.to \notin Range(v.states) THEN "State not defined."
         ELSE IF t.action \notin Range(v.actions) THEN "Action not defined."
         ELSE IF ~RLe(Zero, t.weight) THEN "Transition weight must be non-negative."
         ELSE IF t.action # no_action_symbol /\ t.from \in no_action_transitions(v)
              THEN "Cannot mix actions with no-action transitions."
         ELSE CheckTransitions(v, i + 1)

\* MarkovModel.assert_valid: "ok", or the message of the assertion that fails
assert_valid(v) ==
    IF rewardless(v).raised THEN "Cannot mix rewardless and rewarded models."
    ELSE IF ~rewardless(v).value
            /\ ~(\A s \in Range(v.states) : DictGet(v.rewards, s, -1) >= 0)
         THEN "Rewards must be non-negative."
    ELSE CheckTransitions(v, 1)

\* A variant of sum_weights keyed by the source state alone.
RECURSIVE sum_weights_by_state(_, _, _, _)
sum_weights_by_state(trans, n, from_state, action) ==
    IF n = 0 THEN Zero
    ELSE LET t == trans[n]
             rest == sum_weights_by_state(trans, n - 1, from_state, action)
         IN  IF t.from = from_state THEN RAdd(rest, t.weight) ELSE rest

\* sum_weights[(from_state, action)] after the first loop of
\* normalize_transitions over the first n transitions
RECURSIVE sum_weights(_, _, _, _)
sum_weights(trans, n, from_state, action) ==
    IF n = 0 THEN Zero
    ELSE LET t == trans[n]
             rest == sum_weights(trans, n - 1, from_state, action)
         IN  IF t.from = from_state /\ t.action = action
             THEN RAdd(rest, t.weight) ELSE rest

\* the probability the second loop of normalize_transitions gives a transition
probability(trans, t) ==
    LET total == sum_weights(trans, Len(trans), t.from, t.action)
    IN  IF RLt(Zero, total) THEN RDiv(t.weight, total) ELSE Zero

\* the list normalize_transitions builds (normalized_transitions)
normalized_transitions(trans) ==
    [ i \in 1..Len(trans) |->
        Trans(trans[i].from, trans[i].to, trans[i].action, probability(trans, trans[i])) ]

\* MarkovModel.normalize_transitions on an object: its fields afterwards
normalize_transitions(m) ==
    IF m.normalized THEN m
    ELSE [ m EXCEPT !.transitions = normalized_transitions(m.transitions),
                    !.normalized = TRUE ]

\* MarkovModel.kind (a property)
kind(v) ==
    IF \E i \in DOMAIN v.transitions : v.transitions[i].action # no_action_symbol
    THEN "MDP" ELSE "MC"

----------------------------------------------------------------------------
(* Construction: the calls the parser makes, on small sets of arguments.   *)

BuildNames == { "A", "B" }
BuildActions == { no_action_symbol, "a" }
BuildRewards == (-2)..0
BuildWeights == (-1)..MaxWeight

Idle == pc = "idle"

\* MarkovModel.add_state(name, reward)
add_state(name, reward) ==
    /\ Idle
    /\ lists' = [ lists EXCEPT ![self.states] =
                    IF name \in Range(@) THEN @ ELSE Append(@, name) ]
    /\ dicts' = [ dicts EXCEPT ![self.rewards] = DictSet(@, name, reward) ]
    /\ ret' = NoRet
    /\ UNCHANGED << self, mc, pc, frame >>

\* MarkovModel.add_action(name)
add_action(name) ==
    /\ Idle
    /\ self' = [ self EXCEPT !.actions =
                   IF name \in Range(@) THEN @ ELSE Append(@, name) ]
    /\ ret' = NoRet
    /\ UNCHANGED << lists, dicts, mc, pc, frame >>

\* MarkovModel.add_transition(from_state, to_state, action, weight)
add_transition(from_state, to_state, action, weight) ==
    /\ Idle
    /\ Len(self.transitions) < MaxTrans
    /\ self' = [ self EXCEPT !.transitions =
                   Append(@, Trans(from_state, to_state, action, FromInt(weight))) ]
    /\ ret' = NoRet
    /\ UNCHANGED << lists, dicts, mc, pc, frame >>

\* a call of assert_valid() by the user of the model
call_assert_valid ==
    /\ Idle
    /\ ret' = [ op |-> "assert_valid",
                status |-> IF assert_valid(View(self)) = "ok"
                           THEN "ok" ELSE "AssertionError",
                msg |-> assert_valid(View(self)) ]
    /\ UNCHANGED << lists, dicts, self, mc, pc, frame >>

\* a call of normalize_transitions() by the user of the model
call_normalize_transitions ==
    /\ Idle
    /\ self' = normalize_transitions(self)
    /\ ret' = [ op |-> "normalize_transitions", status |-> "ok",
                before |-> self.transitions, was_normalized |-> self.normalized ]
    /\ UNCHANGED << lists, dicts, mc, pc, frame >>

Init ==
    /\ lists = [ r \in { SelfRef, McRef } |-> << >> ]
    /\ dicts = [ r \in { SelfRef, McRef } |-> { } ]
    /\ self = NewModel(SelfRef)
    /\ mc = NoModel
    /\ pc = "idle"
    /\ frame = NoFrame
    /\ ret = NoRet

Next ==
    \/ \E name \in BuildNames, reward \in BuildRewards : add_state(name, reward)
    \/ \E name \in BuildActions : add_action(name)
    \/ \E f \in BuildNames, t \in BuildNames, a \in BuildActions, w \in BuildWeights :
          add_transition(f, t, a, w)
    \/ call_assert_valid
    \/ call_normalize_transitions

Spec == Init /\ [][Next]_vars

----------------------------------------------------------------------------
(* Policies.  A policy is a Python dict from state to action, kept as a    *)
(* set of pairs; walk also accepts None.                                   *)

Policy(map) == [ none |-> FALSE, map |-> map ]
NonePolicy == [ none |-> TRUE, map |-> { } ]

\* policy.get(state, self.no_action_symbol)
PolicyGet(policy, state) == DictGet(policy.map, state, no_action_symbol)

----------------------------------------------------------------------------
(* The policy reducer.                                                     *)

\* A variant of selected_transitions that looks the policy up at the target.
RECURSIVE selected_by_target(_, _, _)
selected_by_target(trans, n, policy) ==
    IF n = 0 THEN << >>
    ELSE LET t == trans[n]
             rest == selected_by_target(trans, n - 1, policy)
         IN  IF t.action = PolicyGet(policy, t.to)
             THEN Append(rest, Trans(t.from, t.to, no_action_symbol, t.weight))
             ELSE rest

\* the loop of markov_chain_from_policy over the first n transitions: the
\* transitions mc.add_transition has appended
RECURSIVE selected_transitions(_, _, _)
selected_transitions(trans, n, policy) ==
    IF n = 0 THEN << >>
    ELSE LET t == trans[n]
             rest == selected_transitions(trans, n - 1, policy)
         IN  IF t.action = PolicyGet(policy, t.from)
             THEN Append(rest, Trans(t.from, t.to, no_action_symbol, t.weight))
             ELSE rest

\* MarkovModel.markov_chain_from_policy(policy) on a model read as v: the
\* exception it raises, or the fields of the chain it returns (states and
\* rewards are copies of v's)
markov_chain_from_policy(v, policy) ==
    LET built == [ states |-> v.states, rewards |-> v.rewards,
                   actions |-> << no_action_symbol >>,
                   transitions |->
                       selected_transitions(v.transitions, Len(v.transitions), policy),
                   normalized |-> FALSE ]
    IN  IF kind(v) # "MDP"
        THEN [ status |-> "AssertionError",
               msg |-> "Can only generate Markov Chain from MDP.", chain |-> built ]
        ELSE IF assert_valid(v) # "ok"
        THEN [ status |-> "AssertionError", msg |-> assert_valid(v), chain |-> built ]
        ELSE IF assert_valid(built) # "ok"
        THEN [ status |-> "AssertionError", msg |-> assert_valid(built), chain |-> built ]
        ELSE [ status |-> "ok", msg |-> "", chain |-> normalize_transitions(built) ]

----------------------------------------------------------------------------
(* The reachability and reward iterations.                                 *)

\* {state: 0.0 for state in self.states}, then dist[start_state] = 1.0
initial_dist(states, start_state) ==
    [ s \in Range(states) |-> IF s = start_state THEN One ELSE Zero ]

zero_dist(states) == [ s \in Range(states) |-> Zero ]

\* what the inner loop of _MC_iter_accessibility adds to next_dist[s] over the
\* first n transitions: prob * transition_prob for every transition into s out
\* of a state other than end_state that holds mass
RECURSIVE inflow(_, _, _, _, _)
inflow(trans, n, prob_dist, end_state, s) ==
    IF n = 0 THEN Zero
    ELSE LET t == trans[n]
             rest == inflow(trans, n - 1, prob_dist, end_state, s)
         IN  IF t.to = s /\ t.from # end_state /\ RLt(Zero, prob_dist[t.from])
             THEN RAdd(rest, RMul(prob_dist[t.from], t.weight))
             ELSE rest

\* A variant of absorbed in which the end state keeps nothing.
not_absorbed(prob_dist, end_state, s) == Zero

\* the mass the end state keeps: next_dist[end_state] += prob
absorbed(prob_dist, end_state, s) ==
    IF s = end_state /\ RLt(Zero, prob_dist[end_state])
    THEN prob_dist[end_state] ELSE Zero

\* one iteration of the loop of _MC_iter_accessibility: next_dist
next_dist(v, prob_dist, end_state) ==
    [ s \in Range(v.states) |->
        RAdd(absorbed(prob_dist, end_state, s),
             inflow(v.transitions, Len(v.transitions), prob_dist, end_state, s)) ]

\* A variant of reward_inflow that pays the reward of the state entered.
RECURSIVE reward_inflow_of_target(_, _, _, _, _, _)
reward_inflow_of_target(v, n, prob_dist, reward_dist, end_state, s) ==
    IF n = 0 THEN Zero
    ELSE LET t == v.transitions[n]
             rest == reward_inflow_of_target(v, n - 1, prob_dist, reward_dist,
                                             end_state, s)
         IN  IF t.to = s /\ t.from # end_state /\ RLt(Zero, prob_dist[t.from])
             THEN RAdd(rest,
                       RMul(RAdd(reward_dist[t.from],
                                 RMul(prob_dist[t.from],
                                      FromInt(DictItem(v.rewards, t.to)))),
                            t.weight))
             ELSE rest

\* what the inner loop of _MC_expected_reward adds to next_reward_dist[s]
RECURSIVE reward_inflow(_, _, _, _, _, _)
reward_inflow(v, n, prob_dist, reward_dist, end_state, s) ==
    IF n = 0 THEN Zero
    ELSE LET t == v.transitions[n]
             rest == reward_inflow(v, n - 1, prob_dist, reward_dist, end_state, s)
         IN  IF t.to = s /\ t.from # end_state /\ RLt(Zero, prob_dist[t.from])
             THEN RAdd(rest,
                       RMul(RAdd(reward_dist[t.from],
                                 RMul(prob_dist[t.from],
                                      FromInt(DictItem(v.rewards, t.from)))),
                            t.weight))
             ELSE rest

\* next_reward_dist[end_state] += reward_dist[end_state] + prob * rewards[end_state]
reward_absorbed(v, prob_dist, reward_dist, end_state, s) ==
    IF s = end_state /\ RLt(Zero, prob_dist[end_state])
    THEN RAdd(reward_dist[end_state],
              RMul(prob_dist[end_state], FromInt(DictItem(v.rewards, end_state))))
    ELSE Zero

\* one iteration of the loop of _MC_expected_reward: next_reward_dist
next_reward_dist(v, prob_dist, reward_dist, end_state) ==
    [ s \in Range(v.states) |->
        RAdd(reward_absorbed(v, prob_dist, reward_dist, end_state, s),
             reward_inflow(v, Len(v.transitions), prob_dist, reward_dist, end_state, s)) ]

----------------------------------------------------------------------------
(* The path sampler.                                                       *)

\* the two list comprehensions of walk's loop over the first n transitions:
\* possible_transitions filtered to the policy's action
RECURSIVE filter_transitions(_, _, _, _)
filter_transitions(trans, n, current_state, action) ==
    IF n = 0 THEN << >>
    ELSE LET rest == filter_transitions(trans, n - 1, current_state, action)
         IN  IF trans[n].from = current_state /\ trans[n].action = action
             THEN Append(rest, trans[n]) ELSE rest

\* action_transitions: empty too when possible_transitions is
action_transitions(v, policy, current_state) ==
    filter_transitions(v.transitions, Len(v.transitions), current_state,
                       PolicyGet(policy, current_state))

\* the running totals random.choices builds from the weights (cum_weights)
RECURSIVE cum_weights(_, _)
cum_weights(ts, n) ==
    IF n = 0 THEN Zero ELSE RAdd(cum_weights(ts, n - 1), ts[n].weight)

\* A variant of choices that can select any entry.
choices_any(ts) == DOMAIN ts

\* random.choices(next_states, weights=probabilities, k=1)[0] on non-negative
\* weights whose total is positive: the indices a draw can select.  The draw
\* is a point of [0, total) and lands on entry i when it lies in
\* [cum_weights[i-1], cum_weights[i]), which is empty for a weight of 0.
choices(ts) ==
    { i \in DOMAIN ts : RLt(cum_weights(ts, i - 1), cum_weights(ts, i)) }

----------------------------------------------------------------------------
(* Calls of the analysis operations.  A call runs alone: its loop is a     *)
(* sequence of steps during which no other call starts.                    *)

EmptyView == [ states |-> << >>, rewards |-> { }, actions |-> << >>,
               transitions |-> << >>, normalized |-> FALSE ]

\* the arguments of a call; the analysis loops keep no policy (NonePolicy)
Args(start_state, end_state, policy, steps) ==
    [ start_state |-> start_state, end_state |-> end_state,
      policy |-> policy, steps |-> steps ]

Raised(op, exception, msg, args) ==
    [ op |-> op, status |-> exception, msg |-> msg, value |-> Zero, args |-> args ]

Returned(op, value, args) ==
    [ op |-> op, status |-> "ok", msg |-> "", value |-> value, args |-> args ]

\* no call is in progress and the caller holds no result of an earlier one
Ready == pc = "idle" /\ ret = NoRet

\* the caller is done with what the last call returned or raised
forget ==
    /\ pc = "idle"
    /\ ret # NoRet
    /\ ret' = NoRet
    /\ UNCHANGED << lists, dicts, self, mc, pc, frame >>

\* A variant of CopyRef that hands out the object itself.
SameRef(ref) == ref

\* list.copy() / dict.copy(): the reference of the new object
CopyRef(ref) == McRef

\* the caller lets go of the chain an earlier markov_chain_from_policy returned
DropMc ==
    /\ mc' = NoModel
    /\ lists' = [ lists EXCEPT ![McRef] = << >> ]
    /\ dicts' = [ dicts EXCEPT ![McRef] = { } ]

\* iter_accessibility(start_state, end_state, policy, steps) and
\* expected_reward(start_state, end_state, policy, steps) up to the first
\* iteration of the loop of _MC_iter_accessibility / _MC_expected_reward
analysis_call(op, start_state, end_state, policy, steps) ==
    LET v == View(self)
        args == Args(start_state, end_state, NonePolicy, steps)
        reduced == markov_chain_from_policy(v, policy)
        declared == start_state \in Range(v.states) /\ end_state \in Range(v.states)
        raise(msg) ==
            /\ ret' = Raised(op, "AssertionError", msg, args)
            /\ pc' = "idle"
            /\ frame' = NoFrame
        enter(on_self, chain) ==
            /\ ret' = NoRet
            /\ pc' = op
            /\ frame' = [ op |-> op, args |-> args, i |-> 0,
                          on_self |-> on_self, mc |-> chain,
                          prob_dist |-> initial_dist(chain.states, start_state),
                          reward_dist |-> zero_dist(chain.states) ]
    IN  /\ Ready
        /\ DropMc
        /\ IF assert_valid(v) # "ok"
           THEN raise(assert_valid(v)) /\ UNCHANGED self
           ELSE IF kind(v) = "MC"
           THEN /\ self' = normalize_transitions(self)
                /\ IF declared
                   THEN enter(TRUE, [ EmptyView EXCEPT !.states = v.states ])
                   ELSE raise("State not defined.")
           ELSE IF reduced.status # "ok"
           THEN raise(reduced.msg) /\ UNCHANGED self
           ELSE /\ UNCHANGED self
                /\ IF declared
                   THEN enter(FALSE, reduced.chain)
                   ELSE raise("State not defined.")

\* the model the loop of the call in progress reads: self, or the chain the
\* call reduced self to
Chain == IF frame.on_self THEN View(self) ELSE frame.mc

call_iter_accessibility(start_state, end_state, policy, steps) ==
    analysis_call("iter_accessibility", start_state, end_state, policy, steps)

call_expected_reward(start_state, end_state, policy, steps) ==
    analysis_call("expected_reward", start_state, end_state, policy, steps)

\* one iteration of `for _ in range(steps)` in _MC_iter_accessibility
iter_accessibility_loop ==
    /\ pc = "iter_accessibility"
    /\ frame.i < frame.args.steps
    /\ frame' = [ frame EXCEPT
                    !.i = @ + 1,
                    !.prob_dist = next_dist(Chain, frame.prob_dist, frame.args.end_state) ]
    /\ UNCHANGED << lists, dicts, self, mc, pc, ret >>

\* A variant of iter_accessibility_return after one iteration too many.
iter_accessibility_return_late ==
    /\ pc = "iter_accessibility"
    /\ frame.i = frame.args.steps
    /\ ret' = Returned("iter_accessibility",
                       next_dist(Chain, frame.prob_dist,
                                 frame.args.end_state)[frame.args.end_state],
                       frame.args)
    /\ pc' = "idle"
    /\ frame' = NoFrame
    /\ UNCHANGED << lists, dicts, self, mc >>

\* return prob_dist[end_state]
iter_accessibility_return ==
    /\ pc = "iter_accessibility"
    /\ frame.i = frame.args.steps
    /\ ret' = Returned("iter_accessibility", frame.prob_dist[frame.args.end_state],
                       frame.args)
    /\ pc' = "idle"
    /\ frame' = NoFrame
    /\ UNCHANGED << lists, dicts, self, mc >>

\* one iteration of `for _ in range(steps)` in _MC_expected_reward
expected_reward_loop ==
    /\ pc = "expected_reward"
    /\ frame.i < frame.args.steps
    /\ frame' = [ frame EXCEPT
                    !.i = @ + 1,
                    !.prob_dist = next_dist(Chain, frame.prob_dist, frame.args.end_state),
                    !.reward_dist = next_reward_dist(Chain, frame.prob_dist,
                                                     frame.reward_dist,
                                                     frame.args.end_state) ]
    /\ UNCHANGED << lists, dicts, self, mc, pc, ret >>

\* the division that ends _MC_expected_reward
expected_reward_return ==
    /\ pc = "expected_reward"
    /\ frame.i = frame.args.steps
    /\ LET p == frame.prob_dist[frame.args.end_state]
           r == frame.reward_dist[frame.args.end_state]
       IN  ret' = Returned("expected_reward",
                           IF RLt(Zero, p) THEN RDiv(r, p) ELSE Zero,
                           frame.args)
    /\ pc' = "idle"
    /\ frame' = NoFrame
    /\ UNCHANGED << lists, dicts, self, mc >>

\* a call of markov_chain_from_policy(policy) by the user of the model
call_markov_chain_from_policy(policy) ==
    LET reduced == markov_chain_from_policy(View(self), policy)
        args == Args("", "", policy, 0)
        states_ref == CopyRef(self.states)
        rewards_ref == CopyRef(self.rewards)
    IN  /\ Ready
        /\ IF reduced.status = "ok"
           THEN /\ lists' = [ lists EXCEPT ![states_ref] = lists[self.states] ]
                /\ dicts' = [ dicts EXCEPT ![rewards_ref] = dicts[self.rewards] ]
                /\ mc' = [ exists |-> TRUE, states |-> states_ref,
                           rewards |-> rewards_ref,
                           actions |-> reduced.chain.actions,
                           transitions |-> reduced.chain.transitions,
                           normalized |-> reduced.chain.normalized ]
                /\ ret' = Returned("markov_chain_from_policy", Zero, args)
           ELSE /\ DropMc
                /\ ret' = Raised("markov_chain_from_policy", "AssertionError",
                                 reduced.msg, args)
        /\ UNCHANGED << self, pc, frame >>

\* a later mutation of the returned chain by its owner: mc.add_state(name, reward)
mc_add_state(name, reward) ==
    /\ Idle
    /\ mc.exists
    /\ lists' = [ lists EXCEPT ![mc.states] =
                    IF name \in Range(@) THEN @ ELSE Append(@, name) ]
    /\ dicts' = [ dicts EXCEPT ![mc.rewards] = DictSet(@, name, reward) ]
    /\ ret' = [ NoRet EXCEPT !.op = "mc.add_state" ]
    /\ UNCHANGED << self, mc, pc, frame >>

\* A variant of walk_asserts without the assertion on the normalized flag.
walk_asserts_without_flag(v, start_state, policy) ==
    IF start_state \notin Range(v.states)
    THEN "State not defined."
    ELSE IF ~((kind(v) = "MDP" /\ ~policy.none) \/ kind(v) = "MC")
    THEN "Policy must be provided for MDPs."
    ELSE IF rewardless(v).raised
    THEN "Cannot mix rewardless and rewarded models."
    ELSE "ok"

\* the assertions at the head of walk, and the one of the rewardless property
\* it reads before its loop: the message of the first that fails, or "ok"
walk_asserts(v, start_state, policy) ==
    IF ~v.normalized
    THEN "Transitions must be normalized before walking."
    ELSE IF start_state \notin Range(v.states)
    THEN "State not defined."
    ELSE IF ~((kind(v) = "MDP" /\ ~policy.none) \/ kind(v) = "MC")
    THEN "Policy must be provided for MDPs."
    ELSE IF rewardless(v).raised
    THEN "Cannot mix rewardless and rewarded models."
    ELSE "ok"

\* walk(start_state, steps, policy) up to the first iteration of its loop
call_walk(start_state, steps, policy) ==
    LET v == View(self)
        args == Args(start_state, "", policy, steps)
    IN  /\ Ready
        /\ DropMc
        /\ UNCHANGED self
        /\ IF walk_asserts(v, start_state, policy) # "ok"
           THEN /\ ret' = Raised("walk", "AssertionError",
                                 walk_asserts(v, start_state, policy), args)
                /\ pc' = "idle"
                /\ frame' = NoFrame
           ELSE /\ ret' = NoRet
                /\ pc' = "walk"
                /\ frame' = [ op |-> "walk", args |-> args, i |-> 0,
                              policy |-> IF policy.none THEN Policy({ }) ELSE policy,
                              current_state |-> start_state,
                              current_reward |-> 0,
                              path |-> << << start_state, 0 >> >>,
                              no_reward |-> rewardless(v).value ]

\* whether the loop of walk runs its body to the draw: the range is not
\* exhausted and neither `break` is taken
walk_continues ==
    /\ frame.i < frame.args.steps
    /\ action_transitions(View(self), frame.policy, frame.current_state) # << >>

\* one iteration of the loop of walk that draws a successor
walk_loop ==
    /\ pc = "walk"
    /\ walk_continues
    /\ LET ts == action_transitions(View(self), frame.policy, frame.current_state)
           reward == IF frame.no_reward THEN frame.current_reward
                     ELSE frame.current_reward
                          + DictItem(dicts[self.rewards], frame.current_state)
       IN  /\ RLt(Zero, cum_weights(ts, Len(ts)))
           /\ \E k \in choices(ts) :
                frame' = [ frame EXCEPT
                             !.i = @ + 1,
                             !.current_reward = reward,
                             !.current_state = ts[k].to,
                             !.path = Append(@, << ts[k].to, reward >>) ]
    /\ UNCHANGED << lists, dicts, self, mc, pc, ret >>

\* random.choices raises ValueError: the total of the weights is not positive
walk_raise ==
    /\ pc = "walk"
    /\ walk_continues
    /\ LET ts == action_transitions(View(self), frame.policy, frame.current_state)
       IN  ~RLt(Zero, cum_weights(ts, Len(ts)))
    /\ ret' = [ Raised("walk", "ValueError",
                       "Total of weights must be greater than zero", frame.args)
                EXCEPT !.value = frame.path ]
    /\ pc' = "idle"
    /\ frame' = NoFrame
    /\ UNCHANGED << lists, dicts, self, mc >>

\* return path: the range is exhausted or a `break` was taken
walk_return ==
    /\ pc = "walk"
    /\ ~walk_continues
    /\ ret' = Returned("walk", frame.path, frame.args)
    /\ pc' = "idle"
    /\ frame' = NoFrame
    /\ UNCHANGED << lists, dicts, self, mc >>

----------------------------------------------------------------------------
(* Analysis of parsed models: three declared states, a declared action,    *)
(* a bounded list of transitions; rewards all defined or all undefined.    *)

StateNames == << "A", "B", "C" >>
MaxProbWeight == 1      \* largest weight of a transition of an analysed model

\* no-action transitions between any two states, and transitions under the
\* action "a" out of the first state
TransitionUniverse ==
    { Trans(f, t, no_action_symbol, FromInt(w)) :
        f \in Range(StateNames), t \in Range(StateNames), w \in 0..MaxProbWeight }
    \cup
    { Trans(StateNames[1], t, "a", FromInt(w)) :
        t \in Range(StateNames), w \in 0..MaxProbWeight }

RECURSIVE TransitionLists(_)
TransitionLists(n) ==
    IF n = 0 THEN { << >> }
    ELSE LET shorter == TransitionLists(n - 1)
         IN  shorter \cup
             { Append(l, t) : l \in { x \in shorter : Len(x) = n - 1 },
                              t \in TransitionUniverse }

RewardProfiles ==
    { { << "A", -1 >>, << "B", -1 >>, << "C", -1 >> },
      { << "A", 2 >>, << "B", 1 >>, << "C", 0 >> } }

\* the 3-state chain of the specification's worked example
ExampleRewards == { << "A", 2 >>, << "B", 0 >>, << "C", 0 >> }
ExampleTransitions ==
    << Trans("A", "B", no_action_symbol, FromInt(1)),
       Trans("A", "C", no_action_symbol, FromInt(1)),
       Trans("B", "C", no_action_symbol, FromInt(1)),
       Trans("C", "C", no_action_symbol, FromInt(1)) >>

\* Calls start from the first declared state: the analysed models are all
\* the transition lists over the three states, so every other start state is
\* one of these calls up to a renaming of the states.
StartStates == { StateNames[1] }

Policies == { Policy({ }), Policy({ << "A", "a" >> }) }

InitAnalysis ==
    /\ lists = [ r \in { SelfRef, McRef } |-> IF r = SelfRef THEN StateNames ELSE << >> ]
    /\ \E rewards \in RewardProfiles \cup { ExampleRewards } :
         dicts = [ r \in { SelfRef, McRef } |-> IF r = SelfRef THEN rewards ELSE { } ]
    /\ \E trans \in TransitionLists(MaxTrans) \cup { ExampleTransitions } :
         /\ (trans = ExampleTransitions) = (dicts[SelfRef] = ExampleRewards)
         /\ self = [ NewModel(SelfRef) EXCEPT
                       !.actions = << no_action_symbol, "a" >>,
                       !.transitions = trans ]
    /\ mc = NoModel
    /\ pc = "idle"
    /\ frame = NoFrame
    /\ ret = NoRet

NextAnalysis ==
    \/ call_normalize_transitions
    \/ \E s \in StartStates, t \in Range(StateNames),
          p \in Policies, n \in 0..MaxSteps :
          call_iter_accessibility(s, t, p, n)
    \/ iter_accessibility_loop
    \/ iter_accessibility_return
    \/ \E s \in StartStates, t \in Range(StateNames),
          p \in Policies, n \in 0..MaxSteps :
          call_expected_reward(s, t, p, n)
    \/ expected_reward_loop
    \/ expected_reward_return
    \/ \E p \in Policies : call_markov_chain_from_policy(p)
    \/ mc_add_state("D", 0)
    \/ \E s \in StartStates, p \in Policies \cup { NonePolicy }, n \in 0..MaxSteps :
          call_walk(s, n, p)
    \/ walk_loop
    \/ walk_raise
    \/ walk_return
    \/ forget

SpecAnalysis == InitAnalysis /\ [][NextAnalysis]_vars

----------------------------------------------------------------------------
(* Helpers of the properties (not part of the program).                    *)

\* the sum of the weights of the transitions of `trans` at the indices `idx`
RECURSIVE WeightSum(_, _)
WeightSum(trans, idx) ==
    IF idx = { } THEN Zero
    ELSE LET i == CHOOSE j \in idx : TRUE
         IN  RAdd(trans[i].weight, WeightSum(trans, idx \ { i }))

\* the indices of the transitions of `trans` out of `from_state` under `action`
Group(trans, from_state, action) ==
    { j \in DOMAIN trans : trans[j].from = from_state /\ trans[j].action = action }

NonNegative(trans) == \A i \in DOMAIN trans : RLe(Zero, trans[i].weight)

----------------------------------------------------------------------------
----------------------------------------------------------------------------
(* C7: assert_valid() fails exactly when (a) rewards are mixed defined /   *)
(* undefined, or defined with a negative one, or (b) a transition names an *)
(* undeclared source, target or action, or (c) a weight is negative, or    *)
(* (d) some state has both an action-labelled and a no-action outgoing     *)
(* transition, in whichever order they were added.                         *)
RewardOf(v, s) == DictGet(v.rewards, s, -1)

CondRewards(v) ==
    \/ (\E s \in Range(v.states) : RewardOf(v, s) # -1)
         /\ (\E s \in Range(v.states) : RewardOf(v, s) = -1)
    \/ (\A s \in Range(v.states) : RewardOf(v, s) # -1)
         /\ (\E s \in Range(v.states) : RewardOf(v, s) < 0)

CondUndeclared(v) ==
    \E t \in Range(v.transitions) :
        \/ t.from \notin Range(v.states)
        \/ t.to \notin Range(v.states)
        \/ t.action \notin Range(v.actions)

CondNegativeWeight(v) == \E t \in Range(v.transitions) : RLt(t.weight, Zero)

CondMixedActions(v) ==
    \E t, u \in Range(v.transitions) :
        t.from = u.from /\ t.action # no_action_symbol /\ u.action = no_action_symbol

C7_AssertValidExactly ==
    ret.op = "assert_valid"
    => ( ret.status = "AssertionError"
         <=> \/ CondRewards(View(self))
             \/ CondUndeclared(View(self))
             \/ CondNegativeWeight(View(self))
             \/ CondMixedActions(View(self)) )

\* assert_valid failed on a model whose only defect is an action-labelled
\* transition added before a no-action transition of the same state
C7_Witness ==
    /\ ret.op = "assert_valid" /\ ret.status = "AssertionError"
    /\ ret.msg = "Cannot mix actions with no-action transitions."
    /\ Len(self.transitions) = 2
    /\ self.transitions[1].action # no_action_symbol
    /\ self.transitions[2].action = no_action_symbol
    /\ self.transitions[1].from = self.transitions[2].from
    /\ ~CondRewards(View(self)) /\ ~CondUndeclared(View(self))
    /\ ~CondNegativeWeight(View(self))

----------------------------------------------------------------------------
(* C2: markov_chain_from_policy(policy) on a valid MDP returns a chain     *)
(* whose transitions are, in order, exactly the MDP's transitions whose    *)
(* action is policy.get(source, "*"), relabelled "*", each weight divided  *)
(* by the sum of the selected weights of its source state (0 when that sum *)
(* is 0); its states and rewards equal the MDP's and its only action is    *)
(* "*".                                                                    *)
SelectedIdx(trans, policy) ==
    { i \in DOMAIN trans : trans[i].action = PolicyGet(policy, trans[i].from) }

\* the k-th smallest element of a set of indices
Kth(idx, k) == CHOOSE i \in idx : Cardinality({ j \in idx : j < i }) = k - 1

C2_ReducedChain ==
    (/\ ret.op = "markov_chain_from_policy"
     /\ kind(View(self)) = "MDP"
     /\ assert_valid(View(self)) = "ok")
    => LET src == View(self)
           sel == SelectedIdx(src.transitions, ret.args.policy)
       IN  /\ ret.status = "ok"
           /\ mc.exists
           /\ mc.normalized
           /\ lists[mc.states] = src.states
           /\ dicts[mc.rewards] = src.rewards
           /\ mc.actions = << no_action_symbol >>
           /\ Len(mc.transitions) = Cardinality(sel)
           /\ \A k \in DOMAIN mc.transitions :
                LET t == src.transitions[Kth(sel, k)]
                    total == WeightSum(src.transitions,
                                       { j \in sel : src.transitions[j].from = t.from })
                IN  mc.transitions[k] =
                      Trans(t.from, t.to, no_action_symbol,
                            IF RLt(Zero, total) THEN RDiv(t.weight, total) ELSE Zero)

\* a chain was reduced from an MDP whose first transition the policy drops and
\* whose second it keeps
C2_Witness ==
    /\ ret.op = "markov_chain_from_policy" /\ ret.status = "ok"
    /\ Len(self.transitions) = 2
    /\ SelectedIdx(self.transitions, ret.args.policy) = { 2 }
    /\ Len(mc.transitions) = 1
    /\ mc.transitions[1].weight = One
    /\ ~self.normalized

----------------------------------------------------------------------------
(* C3: across the iterations of the loop of iter_accessibility the mass on *)
(* the end state never decreases, so the value returned for steps = n + 1  *)
(* (the mass after n + 1 iterations) is at least the one for steps = n.    *)
C3_Monotone ==
    [][ (pc = "iter_accessibility" /\ pc' = "iter_accessibility")
        => RLe(frame.prob_dist[frame.args.end_state],
               frame'.prob_dist[frame'.args.end_state]) ]_vars

\* the loop has run twice, the end state holds part of the mass and has a
\* way out
C3_Witness ==
    /\ pc = "iter_accessibility"
    /\ frame.i = 2
    /\ RLt(Zero, frame.prob_dist[frame.args.end_state])
    /\ RLt(frame.prob_dist[frame.args.end_state], One)
    /\ \E t \in Range(Chain.transitions) :
          t.from = frame.args.end_state /\ t.to # t.from /\ RLt(Zero, t.weight)

----------------------------------------------------------------------------
(* C4: on a valid model, iter_accessibility(s, t, policy, 0) returns 1 when *)
(* s = t and 0 otherwise, for an MC and for an MDP under any policy.        *)
C4_ZeroSteps ==
    (/\ ret.op = "iter_accessibility"
     /\ ret.args.steps = 0
     /\ assert_valid(View(self)) = "ok")
    => /\ ret.status = "ok"
       /\ ret.value = IF ret.args.start_state = ret.args.end_state THEN One ELSE Zero

\* the call returned 0 on an MDP that has a transition from s to t
C4_Witness ==
    /\ ret.op = "iter_accessibility" /\ ret.status = "ok"
    /\ ret.args.steps = 0
    /\ kind(View(self)) = "MDP"
    /\ ret.args.start_state # ret.args.end_state
    /\ ret.value = Zero
    /\ \E t \in Range(self.transitions) :
          /\ t.from = ret.args.start_state /\ t.to = ret.args.end_state
          /\ t.action = "a" /\ RLt(Zero, t.weight)

----------------------------------------------------------------------------
(* C5: on a valid MC with defined rewards, expected_reward(start, end,     *)
(* policy, n) returns R / P, where the end state is absorbing, P is the    *)
(* total probability of the paths of n steps from start that are at end    *)
(* after the n steps, and R is the sum over those paths of the path's      *)
(* probability times the sum of the rewards of the states it occupies at   *)
(* steps 0..n-1; it returns 0 when P is 0.  On the worked example          *)
(* expected_reward("A", "C", steps = 1) is 2.                              *)

\* the probability of one step from s to s2 when the end state is absorbing
StepProb(v, end_state, s, s2) ==
    IF s = end_state
    THEN IF s2 = end_state THEN One ELSE Zero
    ELSE WeightSum(v.transitions,
                   { i \in DOMAIN v.transitions :
                       v.transitions[i].from = s /\ v.transitions[i].to = s2 })

\* the paths of n steps from start_state to end_state
Paths(v, start_state, end_state, n) ==
    { p \in [ 1..(n + 1) -> Range(v.states) ] :
        p[1] = start_state /\ p[n + 1] = end_state }

\* the probability of the first k steps of the path p
RECURSIVE PathProb(_, _, _, _)
PathProb(v, end_state, p, k) ==
    IF k = 0 THEN One
    ELSE RMul(PathProb(v, end_state, p, k - 1),
              StepProb(v, end_state, p[k], p[k + 1]))

\* the rewards of the states the path p occupies at its first k steps
RECURSIVE PathReward(_, _, _)
PathReward(v, p, k) ==
    IF k = 0 THEN 0 ELSE PathReward(v, p, k - 1) + DictItem(v.rewards, p[k])

\* P: the sum of the probabilities of the paths in ps
RECURSIVE TotalProb(_, _, _, _)
TotalProb(v, end_state, n, ps) ==
    IF ps = { } THEN Zero
    ELSE LET p == CHOOSE x \in ps : TRUE
         IN  RAdd(PathProb(v, end_state, p, n),
                  TotalProb(v, end_state, n, ps \ { p }))

\* R: the sum over the paths in ps of probability times rewards
RECURSIVE TotalReward(_, _, _, _)
TotalReward(v, end_state, n, ps) ==
    IF ps = { } THEN Zero
    ELSE LET p == CHOOSE x \in ps : TRUE
         IN  RAdd(RMul(PathProb(v, end_state, p, n), FromInt(PathReward(v, p, n))),
                  TotalReward(v, end_state, n, ps \ { p }))

C5_ExpectedReward ==
    (/\ ret.op = "expected_reward"
     /\ kind(View(self)) = "MC"
     /\ assert_valid(View(self)) = "ok"
     /\ ~rewardless(View(self)).value)
    => LET v == View(self)
           a == ret.args
           ps == Paths(v, a.start_state, a.end_state, a.steps)
           P == TotalProb(v, a.end_state, a.steps, ps)
           R == TotalReward(v, a.end_state, a.steps, ps)
       IN  /\ ret.status = "ok"
           /\ self.normalized
           /\ ret.value = IF RLt(Zero, P) THEN RDiv(R, P) ELSE Zero
           /\ (/\ v.rewards = ExampleRewards
               /\ v.transitions = normalized_transitions(ExampleTransitions)
               /\ a.start_state = "A" /\ a.end_state = "C" /\ a.steps = 1)
              => ret.value = FromInt(2)

\* expected_reward("A", "C", steps = 1) returned on the worked example, whose
\* transitions out of A were normalized to 1/2 each
C5_Witness ==
    /\ ret.op = "expected_reward" /\ ret.status = "ok"
    /\ dicts[self.rewards] = ExampleRewards
    /\ Len(self.transitions) = 4
    /\ self.transitions[1] = Trans("A", "B", no_action_symbol, Rat(1, 2))
    /\ self.transitions[2] = Trans("A", "C", no_action_symbol, Rat(1, 2))
    /\ ret.args.start_state = "A" /\ ret.args.end_state = "C"
    /\ ret.args.steps = 1
    /\ ret.value = FromInt(2)

----------------------------------------------------------------------------
(* C6: the path walk(start, steps, policy) returns on a normalized model   *)
(* begins at start, has at most steps + 1 entries, and each adjacent pair  *)
(* of it is joined by a transition of the model whose action is            *)
(* policy.get(source, "*") and whose probability is positive, whichever    *)
(* successors were drawn.                                                  *)
C6_WalkPath ==
    (ret.op = "walk" /\ ret.status = "ok")
    => LET v == View(self)
           path == ret.value
           policy == IF ret.args.policy.none THEN Policy({ }) ELSE ret.args.policy
       IN  /\ v.normalized
           /\ Len(path) >= 1
           /\ path[1][1] = ret.args.start_state
           /\ Len(path) <= ret.args.steps + 1
           /\ \A i \in 1..(Len(path) - 1) :
                \E t \in Range(v.transitions) :
                   /\ t.from = path[i][1]
                   /\ t.to = path[i + 1][1]
                   /\ t.action = PolicyGet(policy, path[i][1])
                   /\ RLt(Zero, t.weight)

\* a walk of two steps returned on an MDP in which the policy's action at the
\* start state has a transition of probability 0 next to the one taken
C6_Witness ==
    /\ ret.op = "walk" /\ ret.status = "ok"
    /\ Len(ret.value) = 3
    /\ kind(View(self)) = "MDP"
    /\ \E t \in Range(self.transitions) :
          /\ t.from = ret.args.start_state
          /\ t.action = PolicyGet(ret.args.policy, t.from)
          /\ t.weight = Zero

----------------------------------------------------------------------------
(* C9: walk never raises at a degenerate state: when the current state has *)
(* no outgoing transition, none under the policy's action, or only ones    *)
(* whose total weight was 0, it returns the path built so far without an   *)
(* error.                                                                  *)
C9_WalkNeverRaisesAtDegenerateState ==
    ~(ret.op = "walk" /\ ret.status = "ValueError")

----------------------------------------------------------------------------
(* Steps in which an operation is called: the step enters the operation's  *)
(* loop, or ends with what the operation returned or raised.               *)
Called(op) ==
    /\ Ready
    /\ \/ pc' = op
       \/ pc' = "idle" /\ ret'.op = op

----------------------------------------------------------------------------
(* C10: once the normalized flag of a model is true, no step of            *)
(* normalize_transitions, iter_accessibility, expected_reward,             *)
(* markov_chain_from_policy or walk, and no later mutation of a chain      *)
(* reduced from it, changes its states, rewards, actions, transitions or   *)
(* flag.                                                                   *)
C10_NormalizedModelUnchanged ==
    [][ self.normalized =>
          /\ self' = self
          /\ lists'[self.states] = lists[self.states]
          /\ dicts'[self.rewards] = dicts[self.rewards] ]_vars

\* a chain reduced from a normalized MDP was given a state the MDP has not
C10_Witness ==
    /\ self.normalized
    /\ mc.exists
    /\ ret.op = "mc.add_state"
    /\ "D" \in Range(lists[mc.states])
    /\ "D" \notin Range(lists[self.states])
    /\ DictKeys(dicts[mc.rewards]) # DictKeys(dicts[self.rewards])

----------------------------------------------------------------------------
(* C11: after any sequence of add_state, add_action, add_transition and    *)
(* normalize_transitions calls, whenever the normalized flag is true every *)
(* transition weight lies in [0, 1] and the weights of every (source       *)
(* state, action) group sum to 1 or are all 0, also when add_transition is *)
(* called after normalize_transitions and normalize_transitions is called  *)
(* again.  Stated here for the models all of whose weights are             *)
(* non-negative, where normalisation alone does keep it.                   *)
C11_NormalizedFlagMeansProbabilities ==
    (self.normalized /\ NonNegative(self.transitions))
    => /\ \A i \in DOMAIN self.transitions : RLe(self.transitions[i].weight, One)
       /\ \A i \in DOMAIN self.transitions :
            LET t == self.transitions[i]
                g == Group(self.transitions, t.from, t.action)
            IN  \/ WeightSum(self.transitions, g) = One
                \/ \A j \in g : self.transitions[j].weight = Zero

----------------------------------------------------------------------------
(* C12: on every model that passes assert_valid, its rewards all defined   *)
(* or all the undefined sentinel -1, expected_reward returns a value >= 0  *)
(* for every declared start and end state and every steps >= 0: the        *)
(* sentinel is never added into the reward mass.                           *)
C12_ExpectedRewardNonNegative ==
    (ret.op = "expected_reward" /\ ret.status = "ok") => RLe(Zero, ret.value)

============================================================================
